---- MODULE Spec2Model ----
(***************************************************************************)
(* Model of src/app.py: the Black-Scholes pricers, the recommendation      *)
(* classifier and the Flask handler index().                               *)
(*                                                                         *)
(* Numbers.  A Python float (an IEEE double) is modelled as a decimal      *)
(* floating-point number of 9 significant digits:                          *)
(*     [k |-> "nan"], [k |-> "inf", m |-> +1/-1], [k |-> "nzero"] (-0.0),  *)
(*     [k |-> "fin", m |-> mantissa, e |-> exponent]  (m * 10^e)           *)
(* with 10^8 <= |m| < 10^9, or m = 0 and e = 0 for +0.0.  Every operation  *)
(* rounds its exact result to 9 digits, overflows to an infinity above the *)
(* largest double and underflows to a zero below the smallest one.  The    *)
(* special values follow IEEE 754 as Python and numpy apply it.            *)
(* log, exp, sqrt and the normal cdf are computed by series in this        *)
(* arithmetic; their results agree with the doubles of the code to about   *)
(* 7 significant digits.  A double has 15 to 17: a comparison or a         *)
(* rounding to 2 decimals can differ from the code's only for a value      *)
(* within that distance of the threshold or of the rounding tie.           *)
(*                                                                         *)
(* Texts are sequences of one-character strings.                           *)
(***************************************************************************)
EXTENDS Integers, Sequences, FiniteSets

(* ------------------------------ bounds -------------------------------- *)

\* A request's form differs from the valid baseline form in at most
\* MaxFaults fields (missing, or holding another text).
MaxFaults == 2

\* Direct calls of get_trading_recommendation take edges of
\* -MaxEdgeMills/1000 .. MaxEdgeMills/1000.
MaxEdgeMills == 150

(* --------------------------- program constants ------------------------ *)

\* 0.10, the threshold of lines 63 and 67, in cents.
ThresholdCents == 10

\* float(volatility)/100 and float(risk_free_rate)/100, lines 91-92.
PercentDivisor == 100

\* float(time_to_expiry)/365, line 93.
DaysPerYear == 365

\* round(x, 2), lines 112-113.
RoundDigits == 2

(* ------------------------------- floats ------------------------------- *)

\* A finite non-zero float has a mantissa m with MantissaMin <= |m| < MantissaMax.
MantissaMin == 10 ^ 8

MantissaMax == 10 ^ 9

\* The largest double is 1.79769313e308.
MaxExponent == 300

MaxMantissa == 179769313

\* Half the smallest (subnormal) double, 4.94065646e-324: what is smaller
\* in magnitude rounds to zero.
MinExponent == 0 - 332

MinMantissa == 247032823

NaN == [k |-> "nan", m |-> 0, e |-> 0]

Inf(s) == [k |-> "inf", m |-> s, e |-> 0]

Zero == [k |-> "fin", m |-> 0, e |-> 0]

NegZero == [k |-> "nzero", m |-> 0, e |-> 0]

SignedZero(s) == IF s < 0 THEN NegZero ELSE Zero

IsNaN(x) == x.k = "nan"

IsInf(x) == x.k = "inf"

IsFinite(x) == x.k \in {"fin", "nzero"}

IsZero(x) == IsFinite(x) /\ x.m = 0

\* The sign bit: -1 or 1 (of a zero and of an infinity too).
Sign(x) == IF x.k = "nzero" \/ x.m < 0 THEN -1 ELSE 1

Abs(n) == IF n < 0 THEN -n ELSE n

SignOf(n) == IF n < 0 THEN -1 ELSE 1

RECURSIVE Pow10(_)
Pow10(k) == IF k = 0 THEN 1 ELSE 10 * Pow10(k - 1)

\* s * m * 10^e for m > 0, rounded to 9 digits; an infinity on overflow and a
\* zero on underflow.
RECURSIVE Scale(_, _, _)
Scale(s, m, e) ==
    IF m >= MantissaMax THEN Scale(s, (m + 5) \div 10, e + 1)
    ELSE IF m < MantissaMin THEN Scale(s, m * 10, e - 1)
    ELSE IF e > MaxExponent \/ (e = MaxExponent /\ m > MaxMantissa) THEN Inf(s)
    ELSE IF e < MinExponent \/ (e = MinExponent /\ m < MinMantissa) THEN SignedZero(s)
    ELSE [k |-> "fin", m |-> s * m, e |-> e]

\* The float s * m * 10^e, m >= 0.
Make(s, m, e) == IF m = 0 THEN SignedZero(s) ELSE Scale(s, m, e)

\* The float n * 10^e of a decimal literal.
Dec(n, e) == Make(SignOf(n), Abs(n), e)

\* -x
Neg(x) ==
    IF IsNaN(x) THEN x
    ELSE IF IsInf(x) THEN Inf(-x.m)
    ELSE IF IsZero(x) THEN SignedZero(-Sign(x))
    ELSE [k |-> "fin", m |-> -x.m, e |-> x.e]

\* |x|
Fabs(x) == IF Sign(x) < 0 THEN Neg(x) ELSE x

\* The sum a * 10^e + l/p * 10^e (0 <= l < p) rounded to 9 digits: one more
\* digit of l is kept when the leading digits of a have cancelled.
AddRounded(e, a, l, p) ==
    IF Abs(a) < MantissaMin
    THEN Dec(a * 10 + l \div (p \div 10), e - 1)
    ELSE Dec(a + (IF 2 * l >= p THEN 1 ELSE 0), e)

\* x + ym * 10^(x.e)/p for a power p of 10.
AddAligned(x, ym, p) == AddRounded(x.e, x.m + ym \div p, ym % p, p)

\* x + y for finite non-zero x, y with x.e >= y.e: y is aligned to x.
AddFinite(x, y) ==
    IF x.e - y.e >= 10 THEN x
    ELSE IF x.e = y.e THEN Dec(x.m + y.m, x.e)
    ELSE AddAligned(x, y.m, Pow10(x.e - y.e))

\* x + y
Add(x, y) ==
    IF IsNaN(x) \/ IsNaN(y) THEN NaN
    ELSE IF IsInf(x) /\ IsInf(y) THEN (IF x.m = y.m THEN x ELSE NaN)
    ELSE IF IsInf(x) THEN x
    ELSE IF IsInf(y) THEN y
    ELSE IF IsZero(x) /\ IsZero(y)
    THEN (IF Sign(x) < 0 /\ Sign(y) < 0 THEN NegZero ELSE Zero)
    ELSE IF IsZero(x) THEN y
    ELSE IF IsZero(y) THEN x
    ELSE IF x.e >= y.e THEN AddFinite(x, y) ELSE AddFinite(y, x)

\* x - y (line 109, and the pricers' lines 32, 34 and 55).
Sub(x, y) == Add(x, Neg(y))

\* s * (hi + nx/1000) * 10^(e + 9) rounded to 9 digits, hi of 8 or 9 digits.
MulRound(s, hi, nx, e) ==
    IF hi >= MantissaMin
    THEN Make(s, hi + (IF nx >= 500 THEN 1 ELSE 0), e + 9)
    ELSE Make(s, hi * 10 + nx \div 100 + (IF nx % 100 >= 50 THEN 1 ELSE 0), e + 8)

\* The product from its partial sums: p4 10^12 + p3 10^9 + t2 10^6 + ...
MulSum(s, p4, p3, t2, e) == MulRound(s, p4 * 1000 + p3 + t2 \div 1000, t2 % 1000, e)

\* The product of a2 a1 a0 and b2 b1 b0, limbs of three digits.
MulLimbs(s, a2, a1, a0, b2, b1, b0, e) ==
    MulSum(s, a2 * b2, a2 * b1 + a1 * b2,
           (a2 * b0 + a1 * b1 + a0 * b2) + ((a1 * b0 + a0 * b1) + (a0 * b0) \div 1000) \div 1000,
           e)

\* s * a * b * 10^e for mantissas a, b: the 18-digit product is formed from
\* three-digit limbs and rounded to 9 digits.
MulFinite(s, a, b, e) ==
    MulLimbs(s, a \div 1000000, (a \div 1000) % 1000, a % 1000,
             b \div 1000000, (b \div 1000) % 1000, b % 1000, e)

\* x * y
Mul(x, y) ==
    IF IsNaN(x) \/ IsNaN(y) THEN NaN
    ELSE IF (IsInf(x) /\ IsZero(y)) \/ (IsZero(x) /\ IsInf(y)) THEN NaN
    ELSE IF IsInf(x) \/ IsInf(y) THEN Inf(Sign(x) * Sign(y))
    ELSE IF IsZero(x) \/ IsZero(y) THEN SignedZero(Sign(x) * Sign(y))
    ELSE MulFinite(Sign(x) * Sign(y), Abs(x.m), Abs(y.m), x.e + y.e)

\* <<q, r>> with v + add = q[1] * b + q[2], given v = q * b + rem and
\* rem, add < b (no intermediate exceeds b).
Step(q, rem, add, b) ==
    IF rem >= b - add THEN <<q + 1, rem - (b - add)>> ELSE <<q, rem + add>>

\* <<q, rem>> doubled.
Double(p, b) == Step(2 * p[1], p[2], p[2], b)

\* <<q, rem>> plus r.
AddTo(p, r, b) == Step(p[1], p[2], r, b)

\* <<(10 * r) \div b, (10 * r) % b>> for r < b, as 10 r = 2 (2 (2 r) + r).
Digit(r, b) == Double(AddTo(Double(Double(<<0, r>>, b), b), r, b), b)

\* The 9-digit mantissa and the exponent of (q + r/b) * 10^e, r < b.
RECURSIVE LongDiv(_, _, _, _)
RECURSIVE LongDivDigit(_, _, _, _)
LongDiv(q, r, b, e) ==
    IF q >= MantissaMin THEN <<q + (IF r >= b - r THEN 1 ELSE 0), e>>
    ELSE LongDivDigit(q, Digit(r, b), b, e)

\* The next digit d[1] is appended to q, d[2] is the new remainder.
LongDivDigit(q, d, b, e) == LongDiv(q * 10 + d[1], d[2], b, e - 1)

\* The float of sign s with the mantissa and exponent of p.
MakePair(s, p) == Make(s, p[1], p[2])

DivFinite(s, a, b, e) == MakePair(s, LongDiv(a \div b, a % b, b, e))

\* x / y as numpy divides float64 (no exception: a division by zero gives an
\* infinity or NaN, with a RuntimeWarning).  Python's own float division
\* differs only in raising ZeroDivisionError when y is zero.
Div(x, y) ==
    IF IsNaN(x) \/ IsNaN(y) THEN NaN
    ELSE IF IsInf(x) /\ IsInf(y) THEN NaN
    ELSE IF IsZero(x) /\ IsZero(y) THEN NaN
    ELSE IF IsInf(x) \/ IsZero(y) THEN Inf(Sign(x) * Sign(y))
    ELSE IF IsInf(y) \/ IsZero(x) THEN SignedZero(Sign(x) * Sign(y))
    ELSE DivFinite(Sign(x) * Sign(y), Abs(x.m), Abs(y.m), x.e - y.e)

RECURSIVE SmallDiv(_, _, _, _)
SmallDiv(q, r, c, e) ==
    IF q >= MantissaMin THEN <<q + (IF 2 * r >= c THEN 1 ELSE 0), e>>
    ELSE SmallDiv(q * 10 + (r * 10) \div c, (r * 10) % c, c, e - 1)

\* x / c for an integer constant 0 < c < 10^8 (lines 91-93, and the /2 of
\* lines 31 and 52).
DivBy(x, c) ==
    IF ~IsFinite(x) \/ IsZero(x) THEN x
    ELSE MakePair(Sign(x), SmallDiv(Abs(x.m) \div c, Abs(x.m) % c, c, x.e))

\* -1, 0 or 1 as finite x is below, equal to or above finite y.
Cmp(x, y) ==
    IF IsZero(x) /\ IsZero(y) THEN 0
    ELSE IF IsZero(x) THEN -Sign(y)
    ELSE IF IsZero(y) THEN Sign(x)
    ELSE IF Sign(x) # Sign(y) THEN Sign(x)
    ELSE IF x.e # y.e THEN (IF x.e > y.e THEN Sign(x) ELSE -Sign(x))
    ELSE IF x.m = y.m THEN 0
    ELSE IF x.m > y.m THEN 1 ELSE -1

\* x < y on floats: every comparison with NaN is false.
Lt(x, y) ==
    IF IsNaN(x) \/ IsNaN(y) THEN FALSE
    ELSE IF IsInf(x) /\ IsInf(y) THEN x.m < y.m
    ELSE IF IsInf(x) THEN x.m < 0
    ELSE IF IsInf(y) THEN y.m > 0
    ELSE Cmp(x, y) < 0

\* x > y
Gt(x, y) == Lt(y, x)

\* x == y (NaN equals nothing, itself included; 0.0 == -0.0)
Eq(x, y) ==
    IF IsNaN(x) \/ IsNaN(y) THEN FALSE
    ELSE IF IsInf(x) \/ IsInf(y) THEN x.k = y.k /\ x.m = y.m
    ELSE Cmp(x, y) = 0

\* x <= y
Le(x, y) == Lt(x, y) \/ Eq(x, y)

\* q + r2/(2 den) rounded to the nearest integer, ties to even.
NearestEven(q, r2, den) ==
    IF r2 < den THEN q
    ELSE IF r2 > den THEN q + 1
    ELSE IF q % 2 = 0 THEN q ELSE q + 1

\* num/den rounded to the nearest integer, ties to even (den > 0).
RoundHalfEven(num, den) == NearestEven(num \div den, 2 * (num % den), den)

\* round(x, digits): a finite value to the nearest multiple of 10^-digits,
\* ties to even, the sign kept (a small negative value rounds to -0.0); NaN
\* and the infinities are returned unchanged.
Round(x, digits) ==
    IF ~IsFinite(x) \/ IsZero(x) THEN x
    ELSE IF x.e + digits >= 0 THEN x
    ELSE IF x.e + digits < -9 THEN SignedZero(Sign(x))
    ELSE Make(Sign(x), RoundHalfEven(Abs(x.m), Pow10(-(x.e + digits))), -digits)

\* The integer nearest to a finite x, |x| < 10^9.
ToInt(x) ==
    IF IsZero(x) \/ x.e < -9 THEN 0
    ELSE IF x.e >= 0 THEN x.m * Pow10(x.e)
    ELSE Sign(x) * ((Abs(x.m) + Pow10(-x.e) \div 2) \div Pow10(-x.e))

(* ------------------ numpy's log, sqrt, exp and norm.cdf --------------- *)

\* The float m * 10^e of a 9-digit mantissa m.
Fin(m, e) == [k |-> "fin", m |-> m, e |-> e]

One == Fin(100000000, -8)

Half == Fin(500000000, -9)

Two == Fin(200000000, -8)

Three == Fin(300000000, -8)

\* ln 2
Ln2 == Fin(693147181, -9)

\* ln 10 = Ln10High + Ln10Low, to 18 digits.
Ln10High == Fin(230258509, -8)

Ln10Low == Fin(299404568, -17)

\* 1 / sqrt(2 pi)
InvSqrt2Pi == Fin(398942280, -9)

\* exp(y) overflows to inf above ln(largest double) = 709.782713 and
\* underflows to 0 below ln(half the smallest double) = -745.133219.
ExpMax == Fin(709782713, -6)

ExpMin == Fin(-745133219, -6)

\* A term that no longer changes a 9-digit sum.
Negligible(term, acc) == IsZero(term) \/ (~IsZero(acc) /\ term.e < acc.e - 10)

\* acc + p/(2j+1) + p z2/(2j+3) + ...
RECURSIVE LogSeries(_, _, _, _)
RECURSIVE LogTerm(_, _, _, _, _)
LogSeries(p, z2, j, acc) == LogTerm(p, z2, j, acc, DivBy(p, 2 * j + 1))

\* The term t = p/(2j+1) is added unless it no longer changes the sum.
LogTerm(p, z2, j, acc, t) ==
    IF Negligible(t, acc) THEN acc
    ELSE LogSeries(Mul(p, z2), z2, j + 1, Add(acc, t))

\* 2 atanh z
LogAtanh(z) == Mul(Two, LogSeries(z, Mul(z, z), 0, Zero))

\* ln u for 3/4 <= u < 3/2: 2 atanh((u - 1)/(u + 1)).
LogReduced(u) == LogAtanh(Div(Sub(u, One), Add(u, One)))

\* <<u / 2^n, n>> with u / 2^n < 3/2.
RECURSIVE Halvings(_, _)
Halvings(u, n) ==
    IF Lt(u, Fin(150000000, -8)) THEN <<u, n>> ELSE Halvings(Mul(u, Half), n + 1)

\* p ln 10 + h[2] ln 2 + ln h[1]
LogParts(p, h) ==
    Add(Add(Mul(Dec(p, 0), Ln10High), Mul(Dec(p, 0), Ln10Low)),
        Add(Mul(Dec(h[2], 0), Ln2), LogReduced(h[1])))

\* The mantissa of x read as a number in 3/4 .. 7.5: the exponent that
\* makes it one.
LogExponent(x) == IF x.m >= 750000000 THEN -9 ELSE -8

\* ln x for a finite x > 0: x = u * 2^n * 10^p with 3/4 <= u < 3/2.
LogFinite(x) ==
    LogParts(x.e - LogExponent(x), Halvings(Fin(x.m, LogExponent(x)), 0))

\* np.log(x): NaN for a negative x and -inf for a zero (RuntimeWarning, no
\* exception).
np_log(x) ==
    IF IsNaN(x) THEN NaN
    ELSE IF IsZero(x) THEN Inf(-1)
    ELSE IF Sign(x) < 0 THEN NaN
    ELSE IF IsInf(x) THEN x
    ELSE LogFinite(x)

\* acc + term + term f/(j+1) + ...
RECURSIVE ExpSeries(_, _, _, _)
ExpSeries(term, f, j, acc) ==
    IF Negligible(term, acc) THEN acc
    ELSE ExpSeries(DivBy(Mul(term, f), j + 1), f, j + 1, Add(acc, term))

\* v * 10^n
ExpShift(v, n) == Make(1, v.m, v.e + n)

\* e^y for y = n ln 10 + f.
ExpScaled(y, n) ==
    ExpShift(ExpSeries(One, Sub(Sub(y, Mul(Dec(n, 0), Ln10High)), Mul(Dec(n, 0), Ln10Low)),
                       0, Zero), n)

\* e^y for a finite y in ExpMin..ExpMax: y = n ln 10 + f, e^y = e^f * 10^n.
ExpFinite(y) == ExpScaled(y, ToInt(Div(y, Ln10High)))

\* np.exp(y)
np_exp(y) ==
    IF IsNaN(y) THEN NaN
    ELSE IF IsInf(y) THEN (IF y.m > 0 THEN y ELSE Zero)
    ELSE IF Lt(ExpMax, y) THEN Inf(1)
    ELSE IF Lt(y, ExpMin) THEN Zero
    ELSE IF IsZero(y) THEN One
    ELSE ExpFinite(y)

\* n steps of Newton's iteration s -> (s + x/s)/2.
RECURSIVE Newton(_, _, _)
Newton(x, s, n) ==
    IF n = 0 THEN s ELSE Newton(x, Mul(Add(s, Div(x, s)), Half), n - 1)

\* The steps of Newton's iteration.
NewtonSteps == 5

\* np.sqrt(x): NaN for a negative x (RuntimeWarning, no exception).  The
\* iteration starts within a factor 2 of the root and 5 steps give 9 digits.
np_sqrt(x) ==
    IF IsNaN(x) THEN NaN
    ELSE IF IsZero(x) THEN x
    ELSE IF Sign(x) < 0 THEN NaN
    ELSE IF IsInf(x) THEN x
    ELSE Newton(x, Dec(IF (x.e + 8) % 2 = 0 THEN 2 ELSE 6, (x.e + 8) \div 2), NewtonSteps)

\* The standard normal density at a.
Density(a) == Mul(np_exp(Neg(Mul(Mul(a, a), Half))), InvSqrt2Pi)

\* acc + term + term x2/(2j+3) + ...
RECURSIVE CdfSeries(_, _, _, _)
CdfSeries(term, x2, j, acc) ==
    IF Negligible(term, acc) THEN acc
    ELSE CdfSeries(DivBy(Mul(term, x2), 2 * j + 3), x2, j + 1, Add(acc, term))

\* a + 1/(a + 2/(a + ... + n/tail)), computed from the innermost level
\* outwards.
RECURSIVE Fraction(_, _, _)
RECURSIVE FractionLevel(_, _, _)
Fraction(a, n, tail) ==
    IF n = 0 THEN tail ELSE FractionLevel(a, n, Add(a, Div(Dec(n, 0), tail)))

\* The level a + n/tail is computed before the levels outside it.
FractionLevel(a, n, level) ==
    IF IsFinite(level) THEN Fraction(a, n - 1, level) ELSE level

\* The levels of the continued fraction of the upper tail.
FractionDepth == 30

\* 1 - cdf(a) from the density at a: for a <= 3 it is
\* 1/2 - density (a + a^3/3 + a^5/(3 5) + ...), beyond 3 it is
\* density / (a + 1/(a + 2/(a + ...))).
TailOf(a, density) ==
    IF Le(a, Three)
    THEN Sub(Half, CdfSeries(Mul(density, a), Mul(a, a), 0, Zero))
    ELSE Div(density, Fraction(a, FractionDepth, a))

\* 1 - cdf(a) for a finite a >= 0.  scipy's ndtr is erfc(a/sqrt 2)/2 there,
\* and its erfc returns 0 once a^2/2 exceeds ln(largest double).
UpperTail(a) ==
    IF Lt(ExpMax, Mul(Mul(a, a), Half)) THEN Zero ELSE TailOf(a, Density(a))

\* cdf(x) from the upper tail of |x|.
CdfOfTail(x, tail) == IF Lt(x, Zero) THEN tail ELSE Sub(One, tail)

\* norm.cdf(x)
norm_cdf(x) ==
    IF IsNaN(x) THEN NaN
    ELSE IF IsInf(x) THEN (IF x.m > 0 THEN One ELSE Zero)
    ELSE CdfOfTail(x, UpperTail(Fabs(x)))

(* -------------------------------- texts ------------------------------- *)

Digits == <<"0", "1", "2", "3", "4", "5", "6", "7", "8", "9">>

UpperLetters == <<"A", "B", "C", "D", "E", "F", "G", "H", "I", "J", "K", "L", "M",
                  "N", "O", "P", "Q", "R", "S", "T", "U", "V", "W", "X", "Y", "Z">>

LowerLetters == <<"a", "b", "c", "d", "e", "f", "g", "h", "i", "j", "k", "l", "m",
                  "n", "o", "p", "q", "r", "s", "t", "u", "v", "w", "x", "y", "z">>

IndexIn(c, alphabet) ==
    IF \E i \in 1..Len(alphabet) : alphabet[i] = c
    THEN CHOOSE i \in 1..Len(alphabet) : alphabet[i] = c
    ELSE 0

\* The characters with a decimal value, and the value of each.
DigitOf == [c \in {Digits[i] : i \in 1..Len(Digits)} |-> IndexIn(c, Digits) - 1]

\* The upper-case letters, and the lower-case letter of each.
LowerOf == [c \in {UpperLetters[i] : i \in 1..Len(UpperLetters)} |->
               LowerLetters[IndexIn(c, UpperLetters)]]

\* The lower-case letters, and the upper-case letter of each.
UpperOf == [c \in {LowerLetters[i] : i \in 1..Len(LowerLetters)} |->
               UpperLetters[IndexIn(c, LowerLetters)]]

IsDigit(c) == c \in DOMAIN DigitOf

DigitValue(c) == DigitOf[c]

LowerChar(c) == IF c \in DOMAIN LowerOf THEN LowerOf[c] ELSE c

UpperChar(c) == IF c \in DOMAIN UpperOf THEN UpperOf[c] ELSE c

\* str.lower()
Lower(s) == [i \in 1..Len(s) |-> LowerChar(s[i])]

\* str.upper()
Upper(s) == [i \in 1..Len(s) |-> UpperChar(s[i])]

\* str.capitalize(): first character upper-cased, the rest lower-cased.
Capitalize(s) == [i \in 1..Len(s) |-> IF i = 1 THEN UpperChar(s[i]) ELSE LowerChar(s[i])]

\* The characters float() strips from both ends of its text: blank, tab,
\* line feed, vertical tab, form feed and carriage return.
Whitespace == {" ", "\t", "\n", "", "\f", "\r"}

RECURSIVE LStrip(_)
LStrip(s) == IF s # <<>> /\ Head(s) \in Whitespace THEN LStrip(Tail(s)) ELSE s

RECURSIVE RStrip(_)
RStrip(s) == IF s # <<>> /\ s[Len(s)] \in Whitespace
             THEN RStrip(SubSeq(s, 1, Len(s) - 1)) ELSE s

Strip(s) == RStrip(LStrip(s))

RECURSIVE DigitsValue(_)
DigitsValue(s) == IF s = <<>> THEN 0
                  ELSE 10 * DigitsValue(SubSeq(s, 1, Len(s) - 1)) + DigitValue(s[Len(s)])

AllDigits(s) == \A i \in 1..Len(s) : IsDigit(s[i])

ParseFailure == [k |-> "err", m |-> 0, e |-> 0]

\* The text after its sign: the float of sgn times the digits ip.fp, or the
\* ValueError when they are no digits.
ParseDigits(sgn, ip, fp) ==
    IF AllDigits(ip) /\ AllDigits(fp) /\ Len(ip) + Len(fp) > 0
    THEN Make(sgn, DigitsValue(ip \o fp), -Len(fp))
    ELSE ParseFailure

\* The positions of the points of a text.
Points(body) == {i \in 1..Len(body) : body[i] = "."}

\* The text before the first point.
IntegerPart(body) ==
    IF Points(body) = {} THEN body
    ELSE SubSeq(body, 1, (CHOOSE i \in Points(body) : TRUE) - 1)

\* The text after the first point.
FractionPart(body) ==
    IF Points(body) = {} THEN <<>>
    ELSE SubSeq(body, (CHOOSE i \in Points(body) : TRUE) + 1, Len(body))

\* The text after its sign: nan, inf or infinity in any casing, or digits
\* with at most one point.
ParseBody(sgn, body) ==
    IF Lower(body) = <<"n", "a", "n">> THEN NaN
    ELSE IF Lower(body) = <<"i", "n", "f">>
            \/ Lower(body) = <<"i", "n", "f", "i", "n", "i", "t", "y">> THEN Inf(sgn)
    ELSE IF Cardinality(Points(body)) <= 1
    THEN ParseDigits(sgn, IntegerPart(body), FractionPart(body))
    ELSE ParseFailure

HasSign(s) == s # <<>> /\ Head(s) \in {"+", "-"}

\* The stripped text: an optional sign, then the body.
ParseSigned(s) ==
    ParseBody(IF HasSign(s) /\ Head(s) = "-" THEN -1 ELSE 1,
              IF HasSign(s) THEN Tail(s) ELSE s)

\* float(text) of lines 89-94 on an ASCII text of at most 9 digits without
\* exponent or digit-group underscores: surrounding whitespace is stripped,
\* then an optional sign, then nan / inf / infinity in any casing or digits
\* with at most one point and at least one digit.  ParseFailure stands for
\* the ValueError float() raises.
ParseFloat(text) == ParseSigned(Strip(text))

(* ----------------------- get_trading_recommendation ------------------- *)

Threshold == Dec(ThresholdCents, -2)

NegThreshold == Dec(-ThresholdCents, -2)

\* Lines 63 and 67 with <= and >= in place of < and >: the boundaries
\* -0.10 and 0.10 fall to the Strong side.
get_trading_recommendation_le(edge) ==
    IF Le(edge, NegThreshold) THEN "Strong Buy"
    ELSE IF Lt(edge, Zero) THEN "Consider Buy"
    ELSE IF Le(Threshold, edge) THEN "Strong Sell"
    ELSE IF Gt(edge, Zero) THEN "Consider Sell"
    ELSE "Neutral"

\* get_trading_recommendation, lines 61-71.
get_trading_recommendation(edge) ==
    IF Lt(edge, NegThreshold) THEN "Strong Buy"
    ELSE IF Lt(edge, Zero) THEN "Consider Buy"
    ELSE IF Gt(edge, Threshold) THEN "Strong Sell"
    ELSE IF Gt(edge, Zero) THEN "Consider Sell"
    ELSE "Neutral"

(* ------------------------------ the pricers --------------------------- *)

MsgPricer == "Invalid input parameters for Black-Scholes calculation"

Raise(msg) == [k |-> "raise", msg |-> msg, v |-> NaN]

Return(v) == [k |-> "return", msg |-> "", v |-> v]

\* The exceptions of lines 31-34 (and 52-55), which the except clause turns
\* into ValueError(MsgPricer): S/K is a division of Python floats and raises
\* ZeroDivisionError when K is zero, whatever S is; sigma**2 raises
\* OverflowError when the square of a finite sigma exceeds the largest double.
\* Nothing else raises: numpy's log, sqrt, exp and its float64 division
\* return nan or +/-inf (with a RuntimeWarning) where Python would raise.
PricerRaises(K, sigma) == IsZero(K) \/ (IsFinite(sigma) /\ IsInf(Mul(sigma, sigma)))

\* d1 of lines 31 and 52.
D1(S, K, sigma, r, t) ==
    Div(Add(np_log(Div(S, K)), Mul(Add(r, DivBy(Mul(sigma, sigma), 2)), t)),
        Mul(sigma, np_sqrt(t)))

\* d2 of lines 32 and 53.
D2(d1, sigma, t) == Sub(d1, Mul(sigma, np_sqrt(t)))

\* call_price of line 34 from d1 and d2.
call_price(S, K, r, t, d1, d2) ==
    Sub(Mul(S, norm_cdf(d1)), Mul(Mul(K, np_exp(Mul(Neg(r), t))), norm_cdf(d2)))

\* Lines 32-35 once d1 is computed.
CallFrom(S, K, sigma, r, t, d1) == call_price(S, K, r, t, d1, D2(d1, sigma, t))

\* black_scholes_call, lines 19-38.
black_scholes_call(S, K, sigma, r, t) ==
    IF PricerRaises(K, sigma) THEN Raise(MsgPricer)
    ELSE Return(CallFrom(S, K, sigma, r, t, D1(S, K, sigma, r, t)))

\* put_price of line 55 from d1 and d2.
put_price(S, K, r, t, d1, d2) ==
    Sub(Mul(Mul(K, np_exp(Mul(Neg(r), t))), norm_cdf(Neg(d2))), Mul(S, norm_cdf(Neg(d1))))

\* Lines 53-56 once d1 is computed.
PutFrom(S, K, sigma, r, t, d1) == put_price(S, K, r, t, d1, D2(d1, sigma, t))

\* black_scholes_put, lines 40-59.
black_scholes_put(S, K, sigma, r, t) ==
    IF PricerRaises(K, sigma) THEN Raise(MsgPricer)
    ELSE Return(PutFrom(S, K, sigma, r, t, D1(S, K, sigma, r, t)))


(* ------------------------------ the handler --------------------------- *)

None == <<>>

Some(x) == <<x>>

MsgRequired == "All fields are required"

\* str(e) of float()'s ValueError, without the repr of the text it ends with.
MsgParse == "could not convert string to float"

MsgPositive == "Prices, volatility, and time must be positive"

MsgOption == "Invalid option type. Must be 'call' or 'put'"

MsgUnexpected == "An unexpected error occurred"

\* A variant of lines 81-83 that also requires symbol and expiry_date.
RequiredFieldsAll ==
    {"spot_price", "strike_price", "volatility", "risk_free_rate",
     "time_to_expiry", "market_price", "option_type", "symbol", "expiry_date"}

\* A variant of lines 81-83 that forgets market_price.
RequiredFieldsShort ==
    {"spot_price", "strike_price", "volatility", "risk_free_rate",
     "time_to_expiry", "option_type"}

\* required_fields, lines 81-83.
RequiredFields ==
    {"spot_price", "strike_price", "volatility", "risk_free_rate",
     "time_to_expiry", "market_price", "option_type"}

\* The fields float() is applied to, in the order of lines 89-94.
NumericFields ==
    <<"spot_price", "strike_price", "volatility", "risk_free_rate",
      "time_to_expiry", "market_price">>

CallText == <<"c", "a", "l", "l">>

PutText == <<"p", "u", "t">>

\* A variant of line 95 without .lower().
NormalizeOptionTypeVerbatim(text) == text

\* request.form['option_type'].lower(), line 95.
NormalizeOptionType(text) == Lower(text)

\* The except clause of lines 122-124 forgetting to set error_message.
HandleExceptionSilent == None

\* except Exception, lines 122-124: the error_message it sets.
HandleException == Some(MsgUnexpected)

\* all(field in request.form for field in required_fields), line 85.
AllPresent(form) == \A f \in RequiredFields : f \in DOMAIN form

\* request.form[f] raises a KeyError (no ValueError) on a missing f, and
\* float() a ValueError on a text that is no number.
FieldFails(form, f) == f \notin DOMAIN form \/ ParseFloat(form[f]) = ParseFailure

\* The first of lines 89-94 that raises, 0 when none does.
FirstFailing(form) ==
    IF \E i \in 1..Len(NumericFields) : FieldFails(form, NumericFields[i])
    THEN CHOOSE i \in 1..Len(NumericFields) :
            /\ FieldFails(form, NumericFields[i])
            /\ \A j \in 1..(i - 1) : ~FieldFails(form, NumericFields[j])
    ELSE 0

\* The locals of lines 89-94, once every conversion has succeeded.
Parsed(form) ==
    [S |-> ParseFloat(form["spot_price"]),
     K |-> ParseFloat(form["strike_price"]),
     sigma |-> DivBy(ParseFloat(form["volatility"]), PercentDivisor),
     r |-> DivBy(ParseFloat(form["risk_free_rate"]), PercentDivisor),
     t |-> DivBy(ParseFloat(form["time_to_expiry"]), DaysPerYear),
     market_price |-> ParseFloat(form["market_price"])]

\* any(x <= 0 for x in [S, K, sigma, t]), line 98.
AnyNonPositive(a) == \E x \in {a.S, a.K, a.sigma, a.t} : Le(x, Zero)

Checked(error, floats) == [error |-> error, floats |-> floats]

\* Lines 85-107 with the variant tested before the positivity of the numbers.
ValidateVariantFirst(form) ==
    IF ~AllPresent(form) THEN Checked(Some(MsgRequired), 0)
    ELSE IF FirstFailing(form) # 0
    THEN IF NumericFields[FirstFailing(form)] \in DOMAIN form
         THEN Checked(Some(MsgParse), FirstFailing(form))
         ELSE Checked(HandleException, FirstFailing(form) - 1)
    ELSE IF "option_type" \notin DOMAIN form
    THEN Checked(HandleException, Len(NumericFields))
    ELSE IF NormalizeOptionType(form["option_type"]) \notin {CallText, PutText}
    THEN Checked(Some(MsgOption), Len(NumericFields))
    ELSE IF AnyNonPositive(Parsed(form))
    THEN Checked(Some(MsgPositive), Len(NumericFields))
    ELSE Checked(None, Len(NumericFields))

\* Lines 85-107 up to the call of a pricer: the error_message the handler
\* ends with when a check fails (None when all pass), and the number of
\* float() conversions attempted on the way.
Validate(form) ==
    IF ~AllPresent(form) THEN Checked(Some(MsgRequired), 0)
    ELSE IF FirstFailing(form) # 0
    THEN IF NumericFields[FirstFailing(form)] \in DOMAIN form
         THEN Checked(Some(MsgParse), FirstFailing(form))
         ELSE Checked(HandleException, FirstFailing(form) - 1)
    ELSE IF "option_type" \notin DOMAIN form
    THEN Checked(HandleException, Len(NumericFields))
    ELSE IF AnyNonPositive(Parsed(form))
    THEN Checked(Some(MsgPositive), Len(NumericFields))
    ELSE IF NormalizeOptionType(form["option_type"]) \notin {CallText, PutText}
    THEN Checked(Some(MsgOption), Len(NumericFields))
    ELSE Checked(None, Len(NumericFields))

\* The OptionResult of lines 111-118 with the recommendation taken from the
\* rounded edge.
OptionResultOfRounded(bs_price, edge, symbol, expiry_date, option_type) ==
    [bs_price |-> Round(bs_price, RoundDigits),
     edge |-> Round(edge, RoundDigits),
     symbol |-> Upper(symbol),
     expiry_date |-> expiry_date,
     recommendation |-> get_trading_recommendation(Round(edge, RoundDigits)),
     option_type |-> Capitalize(option_type)]

\* OptionResult(...), lines 111-118.
OptionResult(bs_price, edge, symbol, expiry_date, option_type) ==
    [bs_price |-> Round(bs_price, RoundDigits),
     edge |-> Round(edge, RoundDigits),
     symbol |-> Upper(symbol),
     expiry_date |-> expiry_date,
     recommendation |-> get_trading_recommendation(edge),
     option_type |-> Capitalize(option_type)]

(* ------------------------------ the inputs ---------------------------- *)

FormFields ==
    <<"spot_price", "strike_price", "volatility", "risk_free_rate",
      "time_to_expiry", "market_price", "option_type", "symbol", "expiry_date">>

\* A valid form: 100 / 100 / 20 % / 5 % / 365 days, market price 10, a call.
Baseline ==
    [spot_price |-> <<"1", "0", "0">>,
     strike_price |-> <<"1", "0", "0">>,
     volatility |-> <<"2", "0">>,
     risk_free_rate |-> <<"5">>,
     time_to_expiry |-> <<"3", "6", "5">>,
     market_price |-> <<"1", "0">>,
     option_type |-> CallText,
     symbol |-> <<"a", "a", "p", "l">>,
     expiry_date |-> <<"2", "0", "2", "5", "-", "0", "1", "-", "1", "7">>]


\* Other texts of a numeric field: "", "abc", "nan", "inf", "-inf", "0", "-5",
\* "1.2.3", and 50 between a blank and a tab, and a carriage return and a
\* line feed.
NumericTexts ==
    {<<>>, <<"a", "b", "c">>, <<"n", "a", "n">>, <<"i", "n", "f">>,
     <<"-", "i", "n", "f">>, <<"0">>, <<"-", "5">>, <<"1", ".", "2", ".", "3">>,
     <<" ", "\t", "5", "0", "\r", "\n">>}

\* Further texts of market_price: "10.45", "10.35" and "10.50000".
MarketTexts ==
    {<<"1", "0", ".", "4", "5">>, <<"1", "0", ".", "3", "5">>,
     <<"1", "0", ".", "5", "0", "0", "0", "0">>}

\* Other texts of option_type: "put", "CALL", "Put", "straddle", "", " call".
OptionTexts ==
    {PutText, <<"C", "A", "L", "L">>, <<"P", "u", "t">>,
     <<"s", "t", "r", "a", "d", "d", "l", "e">>, <<>>, <<" ", "c", "a", "l", "l">>}

OtherTexts(f) ==
    IF f = "market_price" THEN NumericTexts \cup MarketTexts
    ELSE IF f \in {NumericFields[i] : i \in 1..Len(NumericFields)} THEN NumericTexts
    ELSE IF f = "option_type" THEN OptionTexts
    ELSE IF f = "symbol" THEN {<<"M", "s", "f", "t">>, <<>>}
    ELSE {<<>>}


EmptyForm == [f \in {} |-> <<>>]

With(form, f, text) == [x \in DOMAIN form \cup {f} |-> IF x = f THEN text ELSE form[x]]

\* The forms over the fields FormFields[i..] that differ from Baseline in at
\* most k fields: a field is as in Baseline, missing, or holds another text.
RECURSIVE Forms(_, _)
Forms(i, k) ==
    IF i > Len(FormFields) THEN {EmptyForm}
    ELSE LET f == FormFields[i]
         IN  {With(g, f, Baseline[f]) : g \in Forms(i + 1, k)}
             \cup (IF k = 0 THEN {}
                   ELSE Forms(i + 1, k - 1)
                        \cup {With(g, f, text) : g \in Forms(i + 1, k - 1),
                                                 text \in OtherTexts(f)})

Requests == Forms(1, MaxFaults)

\* Arguments of a direct call of a pricer.
ArgSamples == {NaN, Inf(1), Dec(-800, 0), Dec(-1, 0), Zero, Dec(1, 0), Dec(2, 0)}

\* Arguments of a direct call of get_trading_recommendation.
EdgeSamples ==
    {Dec(n, -3) : n \in (-MaxEdgeMills)..MaxEdgeMills} \cup {NaN, Inf(1), Inf(-1), NegZero}

NoArgs == [S |-> Zero, K |-> Zero, sigma |-> Zero, r |-> Zero, t |-> Zero]


(* ------------------------------- the state ---------------------------- *)

VARIABLES
    pc,             \* "start" before the call, "done" after it
    fn,             \* the function called
    method,         \* request.method
    form,           \* request.form: a function from the fields present to texts
    args,           \* S, K, sigma, r, t of a direct call of a pricer
    edge_in,        \* edge of a direct call of get_trading_recommendation
    result,         \* index's result: None or Some(OptionResult)
    error_message,  \* index's error_message: None or Some(string)
    ret,            \* what a direct call did: None, Some(Raise) or Some(Return)
    float_calls,    \* the float() conversions attempted
    pricer_calls,   \* the calls of the pricers made, with their arguments
    bs_price,       \* index's local bs_price (unrounded): None or Some(float)
    edge,           \* index's local edge (unrounded): None or Some(float)
    log             \* the app.logger.error entries

vars == <<pc, fn, method, form, args, edge_in, result, error_message, ret,
          float_calls, pricer_calls, bs_price, edge, log>>

Fresh ==
    /\ pc = "start"
    /\ result = None
    /\ error_message = None
    /\ ret = None
    /\ float_calls = 0
    /\ pricer_calls = <<>>
    /\ bs_price = None
    /\ edge = None
    /\ log = <<>>

InitIndex ==
    /\ fn = "index"
    /\ \/ method = "POST" /\ form \in Requests
       \/ method = "GET" /\ form \in {EmptyForm, Baseline}
    /\ args = NoArgs
    /\ edge_in = Zero

InitPricer ==
    /\ fn \in {"black_scholes_call", "black_scholes_put"}
    /\ method = "" /\ form = EmptyForm
    /\ args \in [S : ArgSamples, K : ArgSamples, sigma : ArgSamples,
                 r : ArgSamples, t : ArgSamples]
    /\ edge_in = Zero

InitClassify ==
    /\ fn = "get_trading_recommendation"
    /\ method = "" /\ form = EmptyForm
    /\ args = NoArgs
    /\ edge_in \in EdgeSamples

Init == Fresh /\ (InitIndex \/ InitPricer \/ InitClassify)

PricerCall(name, a) ==
    [fn |-> name, S |-> a.S, K |-> a.K, sigma |-> a.sigma, r |-> a.r, t |-> a.t]

\* The call of lines 102-105.
Dispatch(option_type, a) ==
    IF option_type = CallText
    THEN black_scholes_call(a.S, a.K, a.sigma, a.r, a.t)
    ELSE black_scholes_put(a.S, a.K, a.sigma, a.r, a.t)


DispatchName(option_type) ==
    IF option_type = CallText THEN "black_scholes_call" ELSE "black_scholes_put"

LogPricer == "Error in Black-Scholes calculation"

LogHandler == "Calculation error"

\* index() on a GET, lines 75-78 and 126: nothing is computed.
IndexGet ==
    /\ pc = "start" /\ fn = "index" /\ method = "GET"
    /\ pc' = "done"
    /\ UNCHANGED <<fn, method, form, args, edge_in, result, error_message, ret,
                   float_calls, pricer_calls, bs_price, edge, log>>

\* Lines 120-125: the handler ends with an error and no result.
IndexFails(message, entries) ==
    /\ result' = None
    /\ error_message' = message
    /\ log' = entries

\* Lines 109-118: the edge, then the OptionResult (a KeyError when symbol
\* or expiry_date is missing).
IndexResult(option_type, price, market_edge) ==
    /\ bs_price' = Some(price)
    /\ edge' = Some(market_edge)
    /\ IF "symbol" \in DOMAIN form /\ "expiry_date" \in DOMAIN form
       THEN /\ result' = Some(OptionResult(price, market_edge, form["symbol"],
                                           form["expiry_date"], option_type))
            /\ error_message' = None
            /\ log' = <<>>
       ELSE IndexFails(HandleException, <<LogHandler>>)

\* Lines 102-118 once the pricer has returned or raised o.
IndexPriced(a, option_type, o) ==
    IF o.k = "raise"
    THEN /\ IndexFails(Some(o.msg), <<LogPricer>>)
         /\ UNCHANGED <<bs_price, edge>>
    ELSE IndexResult(option_type, o.v, Sub(a.market_price, o.v))

\* Lines 102-118 on the locals a of lines 89-94.
IndexComputes(a, option_type) ==
    /\ pricer_calls' = <<PricerCall(DispatchName(option_type), a)>>
    /\ IndexPriced(a, option_type, Dispatch(option_type, a))

\* Lines 85-118 once the inputs are checked.
IndexChecked(checked) ==
    /\ float_calls' = checked.floats
    /\ IF checked.error # None
       THEN /\ IndexFails(checked.error,
                          IF checked.error = Some(MsgUnexpected)
                          THEN <<LogHandler>> ELSE <<>>)
            /\ UNCHANGED <<pricer_calls, bs_price, edge>>
       ELSE IndexComputes(Parsed(form), NormalizeOptionType(form["option_type"]))

\* index() on a POST, lines 75-126.
IndexPost ==
    /\ pc = "start" /\ fn = "index" /\ method = "POST"
    /\ pc' = "done"
    /\ IndexChecked(Validate(form))
    /\ UNCHANGED <<fn, method, form, args, edge_in, ret>>

\* A direct call of a pricer returned or raised o.
PricerDone(o) ==
    /\ ret' = Some(o)
    /\ log' = IF o.k = "raise" THEN <<LogPricer>> ELSE <<>>

\* A direct call of black_scholes_call, lines 19-38.
CallPricer ==
    /\ pc = "start" /\ fn = "black_scholes_call"
    /\ pc' = "done"
    /\ pricer_calls' = <<PricerCall(fn, args)>>
    /\ PricerDone(black_scholes_call(args.S, args.K, args.sigma, args.r, args.t))
    /\ UNCHANGED <<fn, method, form, args, edge_in, result, error_message,
                   float_calls, bs_price, edge>>

\* A direct call of black_scholes_put, lines 40-59.
PutPricer ==
    /\ pc = "start" /\ fn = "black_scholes_put"
    /\ pc' = "done"
    /\ pricer_calls' = <<PricerCall(fn, args)>>
    /\ PricerDone(black_scholes_put(args.S, args.K, args.sigma, args.r, args.t))
    /\ UNCHANGED <<fn, method, form, args, edge_in, result, error_message,
                   float_calls, bs_price, edge>>

\* A direct call of get_trading_recommendation, lines 61-71.
Classify ==
    /\ pc = "start" /\ fn = "get_trading_recommendation"
    /\ pc' = "done"
    /\ ret' = Some(get_trading_recommendation(edge_in))
    /\ UNCHANGED <<fn, method, form, args, edge_in, result, error_message,
                   float_calls, pricer_calls, bs_price, edge, log>>

Next == IndexGet \/ IndexPost \/ CallPricer \/ PutPricer \/ Classify

Spec == Init /\ [][Next]_vars

(* ------------------------------- the claims --------------------------- *)

\* The seven fields the claims name as required, spelled out.
SevenFields ==
    {"spot_price", "strike_price", "volatility", "risk_free_rate",
     "time_to_expiry", "market_price", "option_type"}

PostDone == pc = "done" /\ fn = "index" /\ method = "POST"

SomeMissing(f) == \E x \in SevenFields : x \notin DOMAIN f

SomeUnparsable(f) ==
    \E i \in 1..Len(NumericFields) :
        /\ NumericFields[i] \in DOMAIN f
        /\ ParseFloat(f[NumericFields[i]]) = ParseFailure

\* Spot, strike, volatility/100 or days/365 is a number <= 0.
SomeNonPositive(f) ==
    \/ Le(ParseFloat(f["spot_price"]), Zero)
    \/ Le(ParseFloat(f["strike_price"]), Zero)
    \/ Le(DivBy(ParseFloat(f["volatility"]), 100), Zero)
    \/ Le(DivBy(ParseFloat(f["time_to_expiry"]), 365), Zero)

\* Presence, parsing and positivity all pass.
NumbersPass(f) == ~SomeMissing(f) /\ ~SomeUnparsable(f) /\ ~SomeNonPositive(f)

\* The threshold table of the classifier, row by row.
TableLabel(e, label) ==
    /\ Lt(e, Dec(-10, -2)) => label = "Strong Buy"
    /\ Le(Dec(-10, -2), e) /\ Lt(e, Zero) => label = "Consider Buy"
    /\ Eq(e, Zero) => label = "Neutral"
    /\ Gt(e, Zero) /\ Le(e, Dec(10, -2)) => label = "Consider Sell"
    /\ Gt(e, Dec(10, -2)) => label = "Strong Sell"

\* C1: get_trading_recommendation returns, for every edge, the label of the
\* threshold table: Strong Buy below -0.10, Consider Buy on [-0.10, 0),
\* Neutral at 0, Consider Sell on (0, 0.10], Strong Sell above 0.10.
C1_ClassifyFollowsTable ==
    pc = "done" /\ fn = "get_trading_recommendation"
        => /\ Len(ret) = 1
           /\ ret[1] \in {"Strong Buy", "Consider Buy", "Neutral",
                          "Consider Sell", "Strong Sell"}
           /\ TableLabel(edge_in, ret[1])

\* C1 witness: the classifier was called on exactly 0.10, and on that
\* boundary it answered Consider Sell.
C1_Witness ==
    /\ pc = "done" /\ fn = "get_trading_recommendation"
    /\ edge_in = Dec(100, -3)
    /\ ret = Some("Consider Sell")

\* C2: a POST reports the error of the earliest failing step: a missing
\* required field before an unparsable number, an unparsable number (in any
\* numeric field, market_price included) before a non-positive one, and a
\* non-positive number before an invalid option type.
C2_EarliestStepWins ==
    PostDone =>
        IF SomeMissing(form) THEN error_message = Some(MsgRequired)
        ELSE IF SomeUnparsable(form) THEN error_message = Some(MsgParse)
        ELSE IF SomeNonPositive(form) THEN error_message = Some(MsgPositive)
        ELSE Lower(form["option_type"]) \notin {CallText, PutText}
                => error_message = Some(MsgOption)

\* C2 witness: a POST whose market_price is no number and whose spot price
\* is 0 ended with the parse error.
C2_Witness ==
    /\ PostDone
    /\ ~SomeMissing(form)
    /\ ParseFloat(form["market_price"]) = ParseFailure
    /\ ParseFloat(form["spot_price"]) = Zero
    /\ error_message = Some(MsgParse)

\* C3: a POST lacking one of the seven required fields ends with the
\* missing-field message and has computed nothing: no float() conversion, no
\* call of a pricer, no bs_price, no edge, no result.
C3_MissingFieldNoComputation ==
    PostDone /\ SomeMissing(form) =>
        /\ error_message = Some(MsgRequired)
        /\ float_calls = 0
        /\ pricer_calls = <<>>
        /\ bs_price = None
        /\ edge = None
        /\ result = None

\* C3 witness: a POST without market_price (every other field as in the valid
\* form or changed) ended with the missing-field message.
C3_Witness ==
    /\ PostDone
    /\ "market_price" \notin DOMAIN form
    /\ "spot_price" \in DOMAIN form
    /\ error_message = Some(MsgRequired)

\* C4 (as claimed): a POST with spot, strike, volatility/100 or days/365 <= 0
\* ends with the positivity message, and the handler calls a pricer only with
\* spot > 0, strike > 0, volatility > 0 and time > 0.
C4_PricerOnlyOnPositive ==
    PostDone =>
        /\ ~SomeMissing(form) /\ ~SomeUnparsable(form) /\ SomeNonPositive(form)
              => error_message = Some(MsgPositive)
        /\ \A i \in 1..Len(pricer_calls) :
              /\ Gt(pricer_calls[i].S, Zero)
              /\ Gt(pricer_calls[i].K, Zero)
              /\ Gt(pricer_calls[i].sigma, Zero)
              /\ Gt(pricer_calls[i].t, Zero)

\* C5: once presence, parsing and positivity pass, any casing of "call" calls
\* black_scholes_call, any casing of "put" calls black_scholes_put, and any
\* other option type ends with the option-type message, no pricer call and
\* no result.
C5_DispatchIgnoresCase ==
    PostDone /\ NumbersPass(form) =>
        LET variant == Lower(form["option_type"])
        IN  /\ variant = CallText
                  => Len(pricer_calls) = 1 /\ pricer_calls[1].fn = "black_scholes_call"
            /\ variant = PutText
                  => Len(pricer_calls) = 1 /\ pricer_calls[1].fn = "black_scholes_put"
            /\ variant \notin {CallText, PutText}
                  => /\ error_message = Some(MsgOption)
                     /\ pricer_calls = <<>>
                     /\ result = None

\* C5 witness: a POST with option_type "CALL" called black_scholes_call.
C5_Witness ==
    /\ PostDone
    /\ "option_type" \in DOMAIN form
    /\ form["option_type"] = <<"C", "A", "L", "L">>
    /\ Len(pricer_calls) = 1
    /\ pricer_calls[1].fn = "black_scholes_call"

\* C6: the recommendation of every result is the table's label of the
\* unrounded edge market_price - bs_price, while the bs_price and edge shown
\* are those values rounded to 2 decimals.
C6_RecommendationFromUnroundedEdge ==
    PostDone /\ result # None =>
        /\ bs_price # None /\ edge # None
        /\ edge[1] = Sub(ParseFloat(form["market_price"]), bs_price[1])
        /\ TableLabel(edge[1], result[1].recommendation)
        /\ result[1].edge = Round(edge[1], 2)
        /\ result[1].bs_price = Round(bs_price[1], 2)

\* C6 witness: a result shows the edge 0.00 (a market price of 10.45 against
\* a price of 10.4505...) and a recommendation that is not Neutral.
C6_Witness ==
    /\ PostDone /\ result # None
    /\ Eq(result[1].edge, Zero)
    /\ result[1].bs_price = Dec(1045, -2)
    /\ result[1].recommendation = "Consider Buy"

\* C6 second case: a result shows the edge -0.10 and a Strong recommendation.
C6_StrongAtShownThreshold ==
    /\ PostDone /\ result # None
    /\ result[1].edge = Dec(-10, -2)
    /\ result[1].recommendation = "Strong Buy"


\* C7 (as claimed): a pricer called directly on real numbers with spot,
\* strike, volatility or time <= 0 raises the invalid-input error and returns
\* nothing.
C7_PricerRejectsNonPositive ==
    /\ pc = "done"
    /\ fn \in {"black_scholes_call", "black_scholes_put"}
    /\ \A x \in {args.S, args.K, args.sigma, args.r, args.t} : IsFinite(x)
    /\ \/ Le(args.S, Zero) \/ Le(args.K, Zero)
       \/ Le(args.sigma, Zero) \/ Le(args.t, Zero)
    => ret = Some(Raise(MsgPricer))

\* The arguments are real numbers the pricers are specified for: all finite,
\* with S, K, sigma and t > 0.
ValidArgs(a) ==
    /\ \A x \in {a.S, a.K, a.sigma, a.r, a.t} : IsFinite(x)
    /\ \A x \in {a.S, a.K, a.sigma, a.t} : Gt(x, Zero)

\* The tolerance of the parity check, relative to S + K: 10^-7, the 9-digit
\* arithmetic being exact to a few units of 10^-9.
ParityTolerance == Dec(1, -7)

\* S - K e^(-r t)
Forward(a) == Sub(a.S, Mul(a.K, np_exp(Mul(Neg(a.r), a.t))))

\* Both pricers return a number on a, and call - put is Forward(a) within
\* the tolerance.
Parity(a) ==
    LET call == black_scholes_call(a.S, a.K, a.sigma, a.r, a.t)
        put == black_scholes_put(a.S, a.K, a.sigma, a.r, a.t)
    IN  /\ call.k = "return" /\ put.k = "return"
        /\ Le(Fabs(Sub(Sub(call.v, put.v), Forward(a))),
              Mul(ParityTolerance, Add(a.S, a.K)))

\* C8 (as claimed): put-call parity.  After a pricer was called on finite
\* arguments with S, K, sigma, t > 0 and any rate, it has returned its price,
\* and call - put equals S - K e^(-r t) within the tolerance.
C8_PutCallParity ==
    pc = "done" /\ fn \in {"black_scholes_call", "black_scholes_put"} /\ ValidArgs(args)
    => /\ ret = Some(IF fn = "black_scholes_call"
                     THEN black_scholes_call(args.S, args.K, args.sigma, args.r, args.t)
                     ELSE black_scholes_put(args.S, args.K, args.sigma, args.r, args.t))
       /\ Parity(args)

\* C8 where the discount factor e^(-r t) is a finite number: parity holds.
C8_ParityWhereDiscountFinite ==
    /\ pc = "done" /\ fn \in {"black_scholes_call", "black_scholes_put"}
    /\ ValidArgs(args) /\ IsFinite(Forward(args))
    => Parity(args)

\* C9: a POST ends with exactly one of a result and an error message, the
\* message being one of the handler's strings; a GET ends with neither.
C9_ExactlyOneOutcome ==
    /\ pc = "done" /\ fn = "index" /\ method = "POST"
          => /\ (result = None) # (error_message = None)
             /\ Len(result) <= 1 /\ Len(error_message) <= 1
             /\ error_message # None
                   => error_message[1] \in {MsgRequired, MsgParse, MsgPositive,
                                            MsgOption, MsgPricer, MsgUnexpected}
    /\ pc = "done" /\ fn = "index" /\ method = "GET"
          => result = None /\ error_message = None

\* C9 witness: a POST whose exception was no ValueError ended with the
\* generic message and no result.
C9_Witness ==
    /\ PostDone
    /\ error_message = Some(MsgUnexpected)
    /\ result = None

\* C10: a POST whose seven required fields are present and valid but which
\* lacks symbol or expiry_date gets no missing-field error: all six numbers
\* are converted, a pricer is called, the edge is computed, and the handler
\* ends with the generic message and no result.
C10_SymbolAndExpiryUnchecked ==
    /\ PostDone
    /\ "symbol" \notin DOMAIN form \/ "expiry_date" \notin DOMAIN form
    /\ NumbersPass(form)
    /\ Lower(form["option_type"]) \in {CallText, PutText}
    => /\ error_message = Some(MsgUnexpected)
       /\ result = None
       /\ float_calls = 6
       /\ Len(pricer_calls) = 1
       /\ bs_price # None /\ edge # None

\* C10 witness: a POST without expiry_date called a pricer, computed an edge
\* and ended with the generic message.
C10_Witness ==
    /\ PostDone
    /\ "expiry_date" \notin DOMAIN form
    /\ "symbol" \in DOMAIN form
    /\ Len(pricer_calls) = 1
    /\ edge # None
    /\ error_message = Some(MsgUnexpected)

====
